---- MODULE Spec2Model ----
(***************************************************************************)
(* Code Surfer: the rule-based analysis engine (AnalysisEngine, BaseRule   *)
(* and the three registered rules), the configuration manager and the      *)
(* extension's analyzeDocument handler.                                    *)
(*                                                                         *)
(* A source text is modelled by its statements ("items"): function         *)
(* definitions, variable declarators, identifier occurrences, await        *)
(* expressions and unparsable tokens, nested by a parent pointer and       *)
(* listed in source order.  parseCode turns the items into the nodes of a  *)
(* Babel syntax tree with their locations; the rules' visitors run over    *)
(* that tree.                                                              *)
(***************************************************************************)
EXTENDS Integers, Sequences, FiniteSets, TLC

(***************************************************************************)
(* Bounds of the model                                                     *)
(***************************************************************************)
\* statements of a generated source text, one bound per specification
MaxVarItems == 3
MaxFuncItems == 4
MaxLongItems == 2
\* findings handed to the configuration filter
MaxFindings == 2
\* issues in the output of the python analyzer
MaxIssues == 2
\* rules a caller registers beyond the registry's three
MaxCustomRules == 2
MaxScopeItems == 4
MaxAnalyses == 3
MaxTriggers == 3

(***************************************************************************)
(* Generic helpers                                                         *)
(***************************************************************************)
RECURSIVE SumTo(_, _)
\* f(1) + ... + f(n) for a function f on 1..n
SumTo(f, n) == IF n = 0 THEN 0 ELSE f[n] + SumTo(f, n - 1)

RECURSIVE SelectSeqBy(_, _, _)
SelectSeqBy(s, keep, i) ==
  IF i > Len(s) THEN <<>>
  ELSE (IF keep[i] THEN <<s[i]>> ELSE <<>>) \o SelectSeqBy(s, keep, i + 1)

RECURSIVE FlattenSeq(_)
\* concatenation of a sequence of sequences
FlattenSeq(ss) == IF ss = <<>> THEN <<>> ELSE Head(ss) \o FlattenSeq(Tail(ss))

Range(s) == {s[i] : i \in DOMAIN s}

(***************************************************************************)
(* Source text: items                                                      *)
(***************************************************************************)
FunctionTypes ==
  {"FunctionDeclaration", "FunctionExpression", "ArrowFunctionExpression", "ObjectMethod"}

NoItemFields ==
  [name |-> "", async |-> FALSE, ftype |-> "", filler |-> 0, idType |-> "", ctx |-> ""]

\* function definition: `filler` body lines that hold no modelled statement
FuncItem(p, async, ftype, name, filler) ==
  [NoItemFields EXCEPT !.async = async, !.ftype = ftype, !.name = name, !.filler = filler]
    @@ [k |-> "func", parent |-> p]

\* const NAME = ...   or   const [NAME] = ...
VarItem(p, idType, name) ==
  [NoItemFields EXCEPT !.idType = idType, !.name = name] @@ [k |-> "var", parent |-> p]

\* an identifier occurrence: f(NAME) | NAME = 1 | o.NAME
UseItem(p, name, ctx) ==
  [NoItemFields EXCEPT !.name = name, !.ctx = ctx] @@ [k |-> "use", parent |-> p]

AwaitItem(p) == NoItemFields @@ [k |-> "await", parent |-> p]

\* a token no grammar accepts
BadItem(p) == NoItemFields @@ [k |-> "bad", parent |-> p]

\* typed-only syntax (a type annotation statement)
TypedItem(p) == NoItemFields @@ [k |-> "typed", parent |-> p]

Children(items, p) == {i \in DOMAIN items : items[i].parent = p}

RECURSIVE Height(_, _)
\* lines an item spans: a function is its signature line, its nested
\* statements, its filler lines and the line of its closing brace
Height(items, i) ==
  IF items[i].k = "func"
  THEN LET h == [j \in DOMAIN items |->
                   IF items[j].parent = i THEN Height(items, j) ELSE 0]
       IN 2 + items[i].filler + SumTo(h, Len(items))
  ELSE 1

RECURSIVE StartLine(_, _)
\* 1-based line of an item's first character
StartLine(items, i) ==
  LET p == items[i].parent
      before == [j \in DOMAIN items |->
                   IF j < i /\ items[j].parent = p THEN Height(items, j) ELSE 0]
  IN (IF p = 0 THEN 1 ELSE StartLine(items, p) + 1) + SumTo(before, Len(items))

EndLine(items, i) == StartLine(items, i) + Height(items, i) - 1

\* items are listed in source order: a nested item follows its parent, and
\* its parent is a function still open at that point
RECURSIVE IsAncestorOrSelf(_, _, _)
IsAncestorOrSelf(items, a, i) ==
  IF i = 0 THEN a = 0
  ELSE a = i \/ IsAncestorOrSelf(items, a, items[i].parent)

WellFormedItems(items) ==
  \A i \in DOMAIN items :
    LET p == items[i].parent
    IN /\ p \in 0..(i - 1)
       /\ p > 0 => items[p].k = "func"
       /\ i > 1 => IsAncestorOrSelf(items, p, i - 1)

(***************************************************************************)
(* Parser / tree adapter (AnalysisEngine.parseCode)                        *)
(***************************************************************************)
VARIABLES
  topLevelAwait  \* whether the installed parser accepts await outside a function

NoNodeFields ==
  [parent |-> 0, name |-> "", async |-> FALSE, id |-> 0, ptype |-> "", key |-> ""]

Loc(sl, sc, el, ec) ==
  [start |-> [line |-> sl, column |-> sc], end |-> [line |-> el, column |-> ec]]

\* nodes an item parses to
NodeCount(item) ==
  CASE item.k = "var" -> IF item.idType = "Identifier" THEN 2 ELSE 3
    [] OTHER -> 1

\* index of the first node of item i; node 1 is the Program
NodeIdx(items, i) ==
  IF i = 0 THEN 1
  ELSE LET c == [j \in DOMAIN items |-> IF j < i THEN NodeCount(items[j]) ELSE 0]
       IN 2 + SumTo(c, Len(items))

\* the parent node type and key under which an identifier occurrence sits
UseContext(ctx) ==
  CASE ctx = "read" -> [ptype |-> "CallExpression", key |-> "arguments", sc |-> 2]
    [] ctx = "write" -> [ptype |-> "AssignmentExpression", key |-> "left", sc |-> 0]
    [] ctx = "update" -> [ptype |-> "UpdateExpression", key |-> "argument", sc |-> 0]
    [] OTHER -> [ptype |-> "MemberExpression", key |-> "property", sc |-> 2]

NodesOf(items, i) ==
  LET it == items[i]
      p == NodeIdx(items, it.parent)
      n == NodeIdx(items, i)
      sl == StartLine(items, i)
      el == EndLine(items, i)
  IN CASE it.k = "func" ->
            <<[NoNodeFields EXCEPT !.parent = p, !.name = it.name, !.async = it.async]
                @@ [type |-> it.ftype, loc |-> Loc(sl, 0, el, 1)]>>
       [] it.k = "var" /\ it.idType = "Identifier" ->
            <<[NoNodeFields EXCEPT !.parent = p, !.id = n + 1]
                @@ [type |-> "VariableDeclarator", loc |-> Loc(sl, 6, el, 11)],
              [NoNodeFields EXCEPT !.parent = n, !.name = it.name,
                                   !.ptype = "VariableDeclarator", !.key = "id"]
                @@ [type |-> "Identifier", loc |-> Loc(sl, 6, el, 7)]>>
       [] it.k = "var" ->
            <<[NoNodeFields EXCEPT !.parent = p, !.id = n + 1]
                @@ [type |-> "VariableDeclarator", loc |-> Loc(sl, 6, el, 13)],
              [NoNodeFields EXCEPT !.parent = n, !.ptype = "VariableDeclarator", !.key = "id"]
                @@ [type |-> it.idType, loc |-> Loc(sl, 6, el, 9)],
              [NoNodeFields EXCEPT !.parent = n + 1, !.name = it.name,
                                   !.ptype = it.idType, !.key = "elements"]
                @@ [type |-> "Identifier", loc |-> Loc(sl, 7, el, 8)]>>
       [] it.k = "use" ->
            LET c == UseContext(it.ctx)
            IN <<[NoNodeFields EXCEPT !.parent = p, !.name = it.name,
                                      !.ptype = c.ptype, !.key = c.key]
                   @@ [type |-> "Identifier", loc |-> Loc(sl, c.sc, el, c.sc + 1)]>>
       [] it.k = "await" ->
            <<[NoNodeFields EXCEPT !.parent = p]
                @@ [type |-> "AwaitExpression", loc |-> Loc(sl, 0, el, 9)]>>
       [] OTHER ->
            <<[NoNodeFields EXCEPT !.parent = p]
                @@ [type |-> "TSModuleDeclaration", loc |-> Loc(sl, 0, el, 21)]>>

\* grammar: what makes parser.parse throw under the given plugins
SyntaxError(items, isTypeScript) ==
  \E i \in DOMAIN items :
    \/ items[i].k = "bad"
    \/ items[i].k = "typed" /\ ~isTypeScript
    \/ /\ items[i].k = "await"
       /\ IF items[i].parent = 0 THEN ~topLevelAwait
          ELSE ~items[items[i].parent].async

\* the tree parser.parse returns: a Program node and the items' nodes
Tree(code) ==
  LET total == LET h == [j \in DOMAIN code |->
                           IF code[j].parent = 0 THEN Height(code, j) ELSE 0]
               IN SumTo(h, Len(code))
      program == NoNodeFields @@ [type |-> "Program", loc |-> Loc(1, 0, total + 1, 0)]
  IN <<program>> \o FlattenSeq([i \in DOMAIN code |-> NodesOf(code, i)])

\* a parser that recovers from every syntax error instead of throwing
parseCodeRecovering(code, language) == [ok |-> TRUE, nodes |-> Tree(code)]

\* parseCode(code, language): the tree, or null when the parser throws
parseCode(code, language) ==
  LET isTypeScript == language \in {"typescript", "typescriptreact"}
  IN IF SyntaxError(code, isTypeScript)
     THEN [ok |-> FALSE, nodes |-> <<>>]
     ELSE [ok |-> TRUE, nodes |-> Tree(code)]

\* BaseRule.getLanguageFromPath: by file extension, javascript by default
getLanguageFromPath(filePath) ==
  CASE filePath = "ts" -> "typescript"
    [] filePath = "tsx" -> "typescriptreact"
    [] filePath = "jsx" -> "javascriptreact"
    [] OTHER -> "javascript"

(***************************************************************************)
(* Traversal (AnalysisEngine.traverseAST): pre-order, parent before        *)
(* children, siblings in source order; Program.exit runs after every node  *)
(***************************************************************************)
RECURSIVE PreOrder(_, _)
PreOrder(nodes, n) ==
  <<n>> \o FlattenSeq([i \in DOMAIN nodes |->
                         IF nodes[i].parent = n THEN PreOrder(nodes, i) ELSE <<>>])

isFunction(node) == node.type \in FunctionTypes

RECURSIVE getFunctionParent(_, _)
\* NodePath.getFunctionParent: the nearest enclosing function node, 0 if none
getFunctionParent(nodes, n) ==
  LET p == nodes[n].parent
  IN IF p = 0 THEN 0
     ELSE IF isFunction(nodes[p]) THEN p
     ELSE getFunctionParent(nodes, p)

\* NodePath.isReferencedIdentifier, by the parent's type and the key
isReferencedIdentifier(node) ==
  /\ node.type = "Identifier"
  /\ CASE node.ptype = "MemberExpression" -> node.key = "object"
       [] node.ptype = "VariableDeclarator" -> node.key = "init"
       [] node.ptype = "ArrowFunctionExpression" -> node.key = "body"
       [] node.ptype = "AssignmentExpression" -> node.key = "right"
       [] node.ptype \in {"ArrayPattern", "ObjectPattern", "FunctionDeclaration",
                          "FunctionExpression", "CatchClause", "RestElement"} -> FALSE
       [] OTHER -> TRUE

(***************************************************************************)
(* BaseRule: createResult, nodeToRange                                     *)
(***************************************************************************)
\* a range that ends at the first column of the node's last line
nodeToRangeEndingAtLineStart(node) ==
  [start |-> [line |-> node.loc.start.line - 1, character |-> node.loc.start.column],
   end |-> [line |-> node.loc.end.line - 1, character |-> 0]]

\* 0-based lines, columns as the parser gives them
nodeToRange(node) ==
  [start |-> [line |-> node.loc.start.line - 1, character |-> node.loc.start.column],
   end |-> [line |-> node.loc.end.line - 1, character |-> node.loc.end.column]]

createResult(rule, message, node, suggestion) ==
  [message |-> message, severity |-> rule.severity, category |-> rule.category,
   range |-> nodeToRange(node), ruleId |-> rule.id, suggestion |-> suggestion]

\* getFunctionName of LongFunctionRule and AsyncWithoutAwaitRule
getFunctionName(node) ==
  IF node.type = "FunctionDeclaration" /\ node.name # "" THEN node.name
  ELSE IF node.type \in {"ArrowFunctionExpression", "FunctionExpression"} THEN "<anonymous>"
  ELSE "<function>"

(***************************************************************************)
(* LongFunctionRule                                                        *)
(***************************************************************************)
MAX_LINES == 50

LongFunctionRule ==
  [id |-> "long-function", category |-> "code-smell", severity |-> "info",
   enabled |-> TRUE, kind |-> "long"]

functionLength(node) == node.loc.end.line - node.loc.start.line + 1

\* a comparison that is off by one
LongFunctionFlagsInclusive(node) == functionLength(node) >= MAX_LINES

LongFunctionFlags(node) == functionLength(node) > MAX_LINES

\* the Function handler: emits inline
LongFunctionVisit(results, nodes, n) ==
  IF isFunction(nodes[n]) /\ LongFunctionFlags(nodes[n])
  THEN Append(results,
         createResult(LongFunctionRule,
           <<"Function is lines long (max recommended)", getFunctionName(nodes[n]),
             functionLength(nodes[n]), MAX_LINES>>,
           nodes[n],
           <<"Consider breaking this function into smaller, more focused functions">>))
  ELSE results

(***************************************************************************)
(* UnusedVariableRule                                                      *)
(***************************************************************************)
UnusedVariableRule ==
  [id |-> "unused-variable", category |-> "code-smell", severity |-> "warning",
   enabled |-> TRUE, kind |-> "unused"]

\* Map.set on a map kept as a sequence of [key, node] in insertion order:
\* a key already present keeps its place and takes the new value
MapSet(m, key, node) ==
  IF \E i \in DOMAIN m : m[i].key = key
  THEN [i \in DOMAIN m |-> IF m[i].key = key THEN [key |-> key, node |-> node] ELSE m[i]]
  ELSE Append(m, [key |-> key, node |-> node])

UnusedDeclares(nodes, n) ==
  nodes[n].type = "VariableDeclarator" /\ nodes[nodes[n].id].type = "Identifier"

UnusedCountsUse(node) == isReferencedIdentifier(node)

\* the VariableDeclarator and Identifier handlers
UnusedVisit(st, nodes, n) ==
  [declaredVars |->
     IF UnusedDeclares(nodes, n)
     THEN MapSet(st.declaredVars, nodes[nodes[n].id].name, nodes[n].id)
     ELSE st.declaredVars,
   usedVars |->
     IF nodes[n].type = "Identifier" /\ UnusedCountsUse(nodes[n])
     THEN st.usedVars \cup {nodes[n].name}
     ELSE st.usedVars]

\* Program.exit: one result per declared name that was never used
UnusedExit(st, nodes) ==
  LET emit == [i \in DOMAIN st.declaredVars |->
                 IF st.declaredVars[i].key \notin st.usedVars
                 THEN <<createResult(UnusedVariableRule,
                          <<"Variable is declared but never used", st.declaredVars[i].key>>,
                          nodes[st.declaredVars[i].node],
                          <<"Consider removing unused variable or use it in your code",
                            st.declaredVars[i].key>>)>>
                 ELSE <<>>]
  IN FlattenSeq(emit)

(***************************************************************************)
(* AsyncWithoutAwaitRule                                                   *)
(***************************************************************************)
AsyncWithoutAwaitRule ==
  [id |-> "async-without-await", category |-> "potential-issue", severity |-> "warning",
   enabled |-> TRUE, kind |-> "async"]

\* the function whose flag an await expression sets (0: none)
RECURSIVE AwaitOwnerOutermost(_, _)
\* the outermost enclosing function instead of the nearest one
AwaitOwnerOutermost(nodes, n) ==
  LET p == getFunctionParent(nodes, n)
  IN IF p = 0 THEN 0
     ELSE IF getFunctionParent(nodes, p) = 0 THEN p
     ELSE AwaitOwnerOutermost(nodes, p)

\* the function an await expression is counted for
AwaitOwner(nodes, n) == getFunctionParent(nodes, n)

RECURSIVE EnclosingNodes(_, _)
\* the nodes around node n, from its parent up to the Program
EnclosingNodes(nodes, n) ==
  IF nodes[n].parent = 0 THEN {}
  ELSE {nodes[n].parent} \cup EnclosingNodes(nodes, nodes[n].parent)

\* a handler that marks every enclosing async function of an await
AsyncVisitMarkingAllEnclosing(st, nodes, n) ==
  [funcs |-> IF isFunction(nodes[n]) /\ nodes[n].async
             THEN Append(st.funcs, n) ELSE st.funcs,
   hasAwait |->
     IF nodes[n].type = "AwaitExpression"
     THEN st.hasAwait \cup (EnclosingNodes(nodes, n) \cap Range(st.funcs))
     ELSE st.hasAwait]

\* asyncFunctions: the async function nodes in insertion order, and the set
\* of those whose hasAwait is true
AsyncVisit(st, nodes, n) ==
  [funcs |-> IF isFunction(nodes[n]) /\ nodes[n].async
             THEN Append(st.funcs, n) ELSE st.funcs,
   hasAwait |->
     IF nodes[n].type = "AwaitExpression"
     THEN LET parent == AwaitOwner(nodes, n)
          IN IF parent # 0 /\ parent \in Range(st.funcs)
             THEN st.hasAwait \cup {parent} ELSE st.hasAwait
     ELSE st.hasAwait]

AsyncExit(st, nodes) ==
  LET emit == [i \in DOMAIN st.funcs |->
                 IF st.funcs[i] \notin st.hasAwait /\ isFunction(nodes[st.funcs[i]])
                 THEN <<createResult(AsyncWithoutAwaitRule,
                          <<"Async function contains no await expressions",
                            getFunctionName(nodes[st.funcs[i]])>>,
                          nodes[st.funcs[i]],
                          <<"Consider making this function synchronous or add await expressions">>)>>
                 ELSE <<>>]
  IN FlattenSeq(emit)

(***************************************************************************)
(* Rule.analyze                                                            *)
(***************************************************************************)
\* the enter handlers of a rule's visitor, by rule
Visit(rule, st, nodes, n) ==
  CASE rule.kind = "long" -> LongFunctionVisit(st, nodes, n)
    [] rule.kind = "unused" -> UnusedVisit(st, nodes, n)
    [] OTHER -> AsyncVisit(st, nodes, n)

RECURSIVE VisitAll(_, _, _, _)
\* traverse: the handlers applied to the nodes along `order`
VisitAll(rule, st, nodes, order) ==
  IF order = <<>> THEN st
  ELSE VisitAll(rule, Visit(rule, st, nodes, Head(order)), nodes, Tail(order))

\* getVisitor + traverseAST for the three BaseRule subclasses
RunVisitor(rule, nodes) ==
  LET order == PreOrder(nodes, 1)
  IN CASE rule.kind = "long" -> VisitAll(rule, <<>>, nodes, order)
       [] rule.kind = "unused" ->
            UnusedExit(VisitAll(rule, [declaredVars |-> <<>>, usedVars |-> {}],
                                nodes, order), nodes)
       [] OTHER ->
            AsyncExit(VisitAll(rule, [funcs |-> <<>>, hasAwait |-> {}],
                               nodes, order), nodes)

\* BaseRule.analyze: no results when the text does not parse
BaseRuleAnalyze(rule, code, filePath) ==
  LET ast == parseCode(code, getLanguageFromPath(filePath))
  IN IF ~ast.ok THEN <<>> ELSE RunVisitor(rule, ast.nodes)

\* a rule a caller registers itself: it returns one result of its own, or throws
CustomResult(rule) ==
  [message |-> <<"custom">>, severity |-> rule.severity, category |-> rule.category,
   range |-> [start |-> [line |-> 0, character |-> 0], end |-> [line |-> 0, character |-> 0]],
   ruleId |-> rule.id, suggestion |-> <<>>]

\* rule.analyze(code, filePath): [threw, results]
Analyze(rule, code, filePath) ==
  CASE rule.kind = "throws" -> [threw |-> TRUE, results |-> <<>>]
    [] rule.kind = "custom" -> [threw |-> FALSE, results |-> <<CustomResult(rule)>>]
    [] OTHER -> [threw |-> FALSE, results |-> BaseRuleAnalyze(rule, code, filePath)]

(***************************************************************************)
(* ConfigurationManager                                                    *)
(***************************************************************************)
\* a record/function with no key: an empty settings object
Empty == <<>>

\* { ...d, ...u }
Merge(d, u) == [k \in DOMAIN d \cup DOMAIN u |-> IF k \in DOMAIN u THEN u[k] ELSE d[k]]

getDefaultRuleConfig(language) ==
  IF language = "javascript"
  THEN [r \in {"unused-variable", "async-without-await", "long-function"} |->
          CASE r = "unused-variable" -> [enabled |-> TRUE, severity |-> "warning"]
            [] r = "async-without-await" -> [enabled |-> TRUE, severity |-> "warning"]
            [] OTHER -> [enabled |-> TRUE, severity |-> "info", maxLines |-> 50]]
  ELSE IF language = "python"
  THEN [r \in {"missing-docstring", "unused-variable", "bare-except",
               "mutable-default-argument", "comparison-with-singleton",
               "old-string-formatting", "long-function", "high-complexity"} |->
          CASE r \in {"missing-docstring", "unused-variable", "comparison-with-singleton",
                      "old-string-formatting"} -> [enabled |-> TRUE, severity |-> "info"]
            [] r \in {"bare-except", "mutable-default-argument"} ->
                 [enabled |-> TRUE, severity |-> "warning"]
            [] r = "long-function" ->
                 [enabled |-> TRUE, severity |-> "warning", maxLines |-> 50]
            [] OTHER -> [enabled |-> TRUE, severity |-> "warning", maxComplexity |-> 10]]
  ELSE Empty

\* a configuration whose rule entries of the defaults cannot be overridden
getRuleConfigDefaultsWin(cfg, language) ==
  LET defaultConfigs == getDefaultRuleConfig(language)
      userConfig == cfg.rules[language]
  IN [ruleId \in DOMAIN defaultConfigs \cup DOMAIN userConfig |->
        IF ruleId \in DOMAIN defaultConfigs THEN defaultConfigs[ruleId]
        ELSE userConfig[ruleId]]

\* getRuleConfig(language) on the manager's configuration object cfg:
\* the defaults, overridden key by key by the user's settings
getRuleConfig(cfg, language) ==
  LET defaultConfigs == getDefaultRuleConfig(language)
      userConfig == cfg.rules[language]
  IN [ruleId \in DOMAIN defaultConfigs \cup DOMAIN userConfig |->
        IF ruleId \notin DOMAIN userConfig THEN defaultConfigs[ruleId]
        ELSE IF ruleId \in DOMAIN defaultConfigs
             THEN Merge(defaultConfigs[ruleId], userConfig[ruleId])
             ELSE userConfig[ruleId]]

\* a missing `enabled` key reads as undefined, which is falsy
EntryEnabled(entry) == "enabled" \in DOMAIN entry /\ entry.enabled

\* ConfigurationManager.getEnabledRules(language): the ids of the enabled entries
ConfigEnabledRules(cfg, language) ==
  LET ruleConfig == getRuleConfig(cfg, language)
  IN {ruleId \in DOMAIN ruleConfig : EntryEnabled(ruleConfig[ruleId])}

\* getRuleParameter(language, ruleId, paramName, defaultValue)
getRuleParameter(cfg, language, ruleId, paramName, defaultValue) ==
  LET ruleConfig == getRuleConfig(cfg, language)
  IN IF ruleId \in DOMAIN ruleConfig /\ paramName \in DOMAIN ruleConfig[ruleId]
     THEN ruleConfig[ruleId][paramName] ELSE defaultValue

\* shouldShowSeverity(severity): config.get(`severity.<severity>`, true)
shouldShowSeverity(cfg, severity) ==
  IF severity \in DOMAIN cfg.severity THEN cfg.severity[severity] ELSE TRUE

getSupportedLanguages ==
  {"javascript", "typescript", "javascriptreact", "typescriptreact", "python"}

mapLanguageId(languageId) == IF languageId = "python" THEN "python" ELSE "javascript"

(***************************************************************************)
(* Configuration filter                                                    *)
(***************************************************************************)
\* whether the filter lets a finding through under the resolved rule
\* configuration and the per-severity toggles
ShouldKeep(finding, ruleConfig, cfg) ==
  /\ finding.ruleId \in DOMAIN ruleConfig
  /\ EntryEnabled(ruleConfig[finding.ruleId])
  /\ shouldShowSeverity(cfg, finding.severity)

\* a filter that also rewrites the severity of what it keeps to the
\* severity the entry of the rule configures
filterOverridingSeverity(findings, language, cfg) ==
  LET ruleConfig == getRuleConfig(cfg, language)
      keep == [i \in DOMAIN findings |-> ShouldKeep(findings[i], ruleConfig, cfg)]
      kept == SelectSeqBy(findings, keep, 1)
  IN [i \in DOMAIN kept |->
        IF "severity" \in DOMAIN ruleConfig[kept[i].ruleId]
        THEN [kept[i] EXCEPT !.severity = ruleConfig[kept[i].ruleId].severity]
        ELSE kept[i]]

\* a filter that puts the findings of severity error first
filterErrorsFirst(findings, language, cfg) ==
  LET ruleConfig == getRuleConfig(cfg, language)
      keep == [i \in DOMAIN findings |-> ShouldKeep(findings[i], ruleConfig, cfg)]
  IN SelectSeqBy(findings, [i \in DOMAIN findings |->
                              keep[i] /\ findings[i].severity = "error"], 1)
       \o SelectSeqBy(findings, [i \in DOMAIN findings |->
                                   keep[i] /\ findings[i].severity # "error"], 1)

\* filter(findings, language, resolvedConfig): a new sequence of the findings
\* that pass, in their order
filter(findings, language, cfg) ==
  LET ruleConfig == getRuleConfig(cfg, language)
  IN SelectSeqBy(findings, [i \in DOMAIN findings |->
                              ShouldKeep(findings[i], ruleConfig, cfg)], 1)

(***************************************************************************)
(* PythonAnalyzer: the analyzer process, its JSON output, the report       *)
(***************************************************************************)
\* a JavaScript value that is missing, as a piece of text
Undefined == "undefined"

\* parsed JSON: [t |-> "null"], [t |-> "bool" | "string" | "list", v |-> ...]
\* and [t |-> "object", fields |-> a function on the keys present]
JsonNull == [t |-> "null"]

JsonUndefined == [t |-> "undefined"]

JsonObject(fields) == [t |-> "object", fields |-> fields]

\* obj[key] of a parsed object
Get(obj, key) == IF key \in DOMAIN obj.fields THEN obj.fields[key] ELSE JsonUndefined

\* the truth value JavaScript gives a value in `!x` and `x || y`
Truthy(x) ==
  CASE x.t = "bool" -> x.v
    [] x.t = "string" -> x.v # ""
    [] x.t \in {"list", "object"} -> TRUE
    [] OTHER -> FALSE

\* a text field of an issue: what is there, or undefined
IssueField(issue, key) ==
  IF key \in DOMAIN issue.fields THEN issue.fields[key] ELSE Undefined

\* runPythonAnalyzer: the promise rejects when the process fails or its
\* output is not JSON, and resolves to the parsed output otherwise
runPythonAnalyzer(outcome) ==
  CASE outcome.kind = "execError" ->
         [rejected |-> TRUE, error |-> "Python analyzer failed", value |-> JsonNull]
    [] outcome.kind = "notJson" ->
         [rejected |-> TRUE, error |-> "Failed to parse Python analyzer output",
          value |-> JsonNull]
    [] OTHER -> [rejected |-> FALSE, error |-> "", value |-> outcome.value]

\* a severity mapping that knows error only
PythonSeverityErrorOnly(severity) == IF severity = "error" THEN "error" ELSE "info"

\* the switch on pythonIssue.severity
PythonSeverity(severity) ==
  CASE severity = "error" -> "error"
    [] severity = "warning" -> "warning"
    [] OTHER -> "info"

\* the switch on pythonIssue.type
PythonCategory(type) ==
  CASE type = "potential_issue" -> "potential-issue"
    [] type = "code_smell" -> "code-smell"
    [] OTHER -> "suggestion"

\* convertPythonIssue(pythonIssue)
convertPythonIssue(pythonIssue) ==
  [id |-> <<IssueField(pythonIssue, "rule"), pythonIssue.fields.line>>,
   message |-> <<IssueField(pythonIssue, "message")>>,
   severity |-> PythonSeverity(IssueField(pythonIssue, "severity")),
   category |-> PythonCategory(IssueField(pythonIssue, "type")),
   range |-> [start |-> [line |-> pythonIssue.fields.line, character |-> 0],
              end |-> [line |-> pythonIssue.fields.line, character |-> 100]],
   ruleId |-> IssueField(pythonIssue, "rule")]

\* a failure that is swallowed: a report without findings
PythonFailureReportEmpty(filePath, id, message) ==
  [filePath |-> filePath, language |-> "python", returned |-> TRUE, results |-> <<>>]

\* the report with the one finding analyzeFile makes up on a failure
PythonFailureReport(filePath, id, message) ==
  [filePath |-> filePath, language |-> "python", returned |-> TRUE,
   results |-> <<[id |-> <<id>>, message |-> message, severity |-> "error",
                  category |-> "potential-issue",
                  range |-> [start |-> [line |-> 1, character |-> 0],
                             end |-> [line |-> 1, character |-> 0]],
                  ruleId |-> id]>>]

\* PythonAnalyzer.analyzeFile(filePath), given what the process yields; a
\* TypeError inside the try block lands in the catch block like a rejection
PythonAnalyzeFile(filePath, outcome) ==
  LET run == runPythonAnalyzer(outcome)
      pythonResult == run.value
      issues == Get(pythonResult, "issues")
  IN IF run.rejected
     THEN PythonFailureReport(filePath, "analysis_error", <<"Analysis failed", run.error>>)
     ELSE IF pythonResult.t # "object"
     THEN PythonFailureReport(filePath, "analysis_error", <<"Analysis failed", "TypeError">>)
     ELSE IF ~Truthy(Get(pythonResult, "success"))
     THEN PythonFailureReport(filePath, "syntax_error",
            IF Truthy(Get(pythonResult, "message"))
            THEN <<Get(pythonResult, "message").v>>
            ELSE <<"Failed to parse Python file">>)
     ELSE IF ~Truthy(issues)
     THEN [filePath |-> filePath, language |-> "python", returned |-> TRUE,
           results |-> <<>>]
     ELSE IF issues.t # "list" \/ \E i \in DOMAIN issues.v : issues.v[i].t # "object"
     THEN PythonFailureReport(filePath, "analysis_error", <<"Analysis failed", "TypeError">>)
     ELSE [filePath |-> filePath, language |-> "python", returned |-> TRUE,
           results |-> [i \in DOMAIN issues.v |-> convertPythonIssue(issues.v[i])]]

\* PythonAnalyzer.isPythonFile, on the extension of the path
isPythonFile(filePath) == filePath \in {"py", "pyw", "pyx"}

(***************************************************************************)
(* AnalysisEngine and the extension's analyzeDocument                      *)
(***************************************************************************)
VARIABLES
  rules,         \* AnalysisEngine.rules: the registered rules, in insertion order
  settings,      \* the workspace's codeSurfer settings
  config,        \* ConfigurationManager.config: the settings as of the last refresh
  doc,           \* the document: [fsPath, languageId, text]
  pc,            \* "startup" | "idle" | "loop" (inside analyzeFile)
  caller,        \* who called analyzeFile: "none" | "api" | "document"
  options,       \* the AnalyzerOptions of the current or last call
  enabledRules,  \* analyzeFile's enabledRules
  idx,           \* position of the for loop in enabledRules
  results,       \* analyzeFile's results
  errors,        \* ids of the rules whose failure was logged by the current call
  report,        \* the AnalysisReport the last call returned, NoReport while it runs
  filterStage,   \* "none" | "once" | "twice": how often the filter ran on the report
  filtered,      \* the configuration filter's output on the report's results
  refiltered,    \* the filter's output on its own output
  pyOutcome,     \* what the python analyzer process yields for the document
  walk,          \* the traversal of a rule's analyze call under way
  previous,      \* a report a caller of analyzeFile has kept, with its options
  tasks,         \* the analyzeDocument calls waiting for their analysis
  ui,            \* what the extension holds and shows for the document
  triggers       \* how many times an event handler has run

vars == <<topLevelAwait, rules, settings, config, doc, pc, caller, options,
          enabledRules, idx, results, errors, report, filterStage, filtered, refiltered,
          pyOutcome, walk, previous, tasks, ui, triggers>>

otherVars == <<pyOutcome, walk, previous, tasks, ui, triggers>>

filterVars == <<filterStage, filtered, refiltered>>

NoReport == [filePath |-> "", results |-> <<>>, language |-> "", returned |-> FALSE]

\* Map.set(rule.id, rule): a registered id keeps its place
registerRule(rs, rule) ==
  IF \E i \in DOMAIN rs : rs[i].id = rule.id
  THEN [i \in DOMAIN rs |-> IF rs[i].id = rule.id THEN rule ELSE rs[i]]
  ELSE Append(rs, rule)

\* RuleRegistry.registerAllRules
registerAllRules(rs) ==
  registerRule(registerRule(registerRule(rs, UnusedVariableRule), AsyncWithoutAwaitRule),
               LongFunctionRule)

\* a predicate that forgets that an empty allow-list means every rule
RuleSelectedByListOnly(rule, opts) == rule.enabled /\ rule.id \in opts.enabledRules

\* the filter predicate of AnalysisEngine.getEnabledRules
RuleSelected(rule, opts) ==
  rule.enabled /\ (opts.enabledRules = {} \/ rule.id \in opts.enabledRules)

\* a selection that runs every registered rule
getEnabledRulesUnfiltered(rs, opts) == rs

\* AnalysisEngine.getEnabledRules(options)
getEnabledRules(rs, opts) ==
  SelectSeqBy(rs, [i \in DOMAIN rs |-> RuleSelected(rs[i], opts)], 1)

\* a catch block that also throws away what the earlier rules produced
PushResultsResetOnThrow(res, outcome) == IF outcome.threw THEN <<>> ELSE res \o outcome.results

\* a loop that puts the findings of each rule in front of the earlier ones
PushResultsInFront(res, outcome) == IF outcome.threw THEN res ELSE outcome.results \o res

\* what one pass of the for loop's try block does to results
PushResults(res, outcome) == IF outcome.threw THEN res ELSE res \o outcome.results

(***************************************************************************)
(* Inputs                                                                  *)
(***************************************************************************)
BuiltinRuleIds == {"unused-variable", "async-without-await", "long-function"}

\* rules registered through registerRule besides the registry's three
CustomRules ==
  [id : {"custom-a", "custom-b"}, category : {"suggestion"}, severity : {"info"},
   enabled : BOOLEAN, kind : {"custom", "throws"}]

CustomCount(rs) == Cardinality({i \in DOMAIN rs : rs[i].id \notin BuiltinRuleIds})

\* allow-lists a direct caller of analyzeFile passes
AllowLists == SUBSET {"long-function", "custom-a", "not-registered"}

\* the codeSurfer section of the settings
SettingsOf(userJs, userPy, shown) ==
  [enabled |-> TRUE, showInlineHints |-> TRUE,
   rules |-> [javascript |-> userJs, python |-> userPy],
   severity |-> shown]

SettingsWith(userJs) ==
  SettingsOf(userJs, Empty, [info |-> TRUE, warning |-> TRUE, error |-> TRUE])

\* user settings that disable a set of the javascript rules, with or
\* without an enabled entry for a rule id of the user's own
DisablingConfigs ==
  {[r \in off \cup own |-> IF r \in off THEN [enabled |-> FALSE] ELSE [enabled |-> TRUE]] :
     off \in SUBSET BuiltinRuleIds, own \in {{}, {"my-rule"}}}

\* sample.js in outline: an unused variable, an async function without
\* await, a long function, an async function that awaits, a used variable
SampleText ==
  <<VarItem(0, "Identifier", "a"),
    FuncItem(0, TRUE, "FunctionDeclaration", "f", 2),
    FuncItem(0, FALSE, "FunctionDeclaration", "g", 57),
    FuncItem(0, TRUE, "FunctionDeclaration", "h", 0),
    AwaitItem(4),
    FuncItem(0, FALSE, "FunctionDeclaration", "u", 0),
    VarItem(6, "Identifier", "b"),
    UseItem(6, "b", "read")>>

\* two findings for each rule, scattered over the text: two unused
\* variables, two long async functions without await
ScatteredText ==
  <<VarItem(0, "Identifier", "b"),
    FuncItem(0, TRUE, "FunctionDeclaration", "f", 57),
    VarItem(0, "Identifier", "a"),
    FuncItem(0, TRUE, "FunctionDeclaration", "g", 57)>>

Documents ==
  {[fsPath |-> "js", languageId |-> "javascript", text |-> SampleText],
   [fsPath |-> "js", languageId |-> "javascript", text |-> ScatteredText],
   [fsPath |-> "js", languageId |-> "javascript",
    text |-> <<VarItem(0, "Identifier", "a"), BadItem(0)>>],
   [fsPath |-> "ts", languageId |-> "typescript",
    text |-> <<TypedItem(0), VarItem(0, "Identifier", "a")>>],
   [fsPath |-> "js", languageId |-> "javascript",
    text |-> <<TypedItem(0), VarItem(0, "Identifier", "a")>>]}

(***************************************************************************)
(* Actions                                                                 *)
(***************************************************************************)
runVars == <<caller, options, enabledRules, idx, results, errors, report>>

\* engine.registerRule(rule) during start-up
RegisterRule(rule) ==
  /\ pc = "startup"
  /\ CustomCount(registerRule(rules, rule)) <= MaxCustomRules
  /\ rules' = registerRule(rules, rule)
  /\ rules' # rules
  /\ UNCHANGED <<otherVars, topLevelAwait, settings, config, doc, pc, runVars, filterVars>>

\* RuleRegistry.registerAllRules(engine) in the extension's constructor
RegisterAllRules ==
  /\ pc = "startup"
  /\ rules' = registerAllRules(rules)
  /\ rules' # rules
  /\ UNCHANGED <<otherVars, topLevelAwait, settings, config, doc, pc, runVars, filterVars>>

\* the extension's constructor: a configuration manager on the current
\* settings, the registry's rules registered, handlers set up
ExtensionConstructor ==
  /\ pc = "startup"
  /\ config' = settings
  /\ rules' = registerAllRules(rules)
  /\ pc' = "idle"
  /\ UNCHANGED <<otherVars, topLevelAwait, settings, doc, runVars, filterVars>>

\* the user edits the workspace settings
ChangeSettings(userJs) ==
  /\ pc = "idle"
  /\ settings' = SettingsWith(userJs)
  /\ settings' # settings
  /\ UNCHANGED <<otherVars, topLevelAwait, rules, config, doc, pc, runVars, filterVars>>

\* an engine built by hand is ready: its callers may now run
Activate ==
  /\ pc = "startup"
  /\ pc' = "idle"
  /\ UNCHANGED <<otherVars, topLevelAwait, rules, settings, config, doc, runVars, filterVars>>

\* analyzeFile(code, filePath, options), up to the for loop
\* what the caller of an analysis holds: a report kept from an earlier
\* call, what the editor shows, the events handled so far
callerVars == <<previous, ui, triggers>>

\* the results a call of analyzeFile starts from, whatever earlier calls
\* left: the member kept across calls
ResultsKeptAcrossCalls(earlier) == earlier

\* the results a call of analyzeFile starts from: const results = []
NewResults(earlier) == <<>>

EnterAnalyzeFile(who, opts) ==
  /\ caller' = who
  /\ options' = opts
  /\ results' = NewResults(results)
  /\ errors' = {}
  /\ enabledRules' = getEnabledRules(rules, opts)
  /\ idx' = 1
  /\ report' = NoReport
  /\ pc' = "loop"
  /\ UNCHANGED <<pyOutcome, walk, tasks, topLevelAwait, rules, settings, doc, filterVars>>

\* a caller of the engine passes its own allow-list
AnalyzeFileCall(allow) ==
  /\ pc = "idle"
  /\ EnterAnalyzeFile("api", [enabledRules |-> allow, language |-> doc.languageId])
  /\ UNCHANGED <<config, callerVars>>

\* analyzeDocument up to the for loop of analyzeFile: refresh the
\* configuration, take the enabled rule ids of the document's language as
\* the allow-list, call analyzeFile
StartAnalyzeDocument ==
  /\ config' = settings
  /\ EnterAnalyzeFile("document",
       [enabledRules |-> ConfigEnabledRules(settings, mapLanguageId(doc.languageId)),
        language |-> doc.languageId])

AnalyzeDocument ==
  /\ pc = "idle"
  /\ StartAnalyzeDocument
  /\ UNCHANGED callerVars

\* the report of the last analysis is kept aside with the options and the
\* configuration snapshot it was made under, and the document is analysed
\* again
AnalyzeDocumentAgain ==
  /\ pc = "idle"
  /\ report.returned
  /\ previous' = [kept |-> TRUE, results |-> report.results, options |-> options,
                   config |-> config]
  /\ StartAnalyzeDocument
  /\ UNCHANGED <<ui, triggers>>

\* one pass of the for loop: try { results.push(...rule.analyze()) } catch { log }
RunRule ==
  /\ pc = "loop"
  /\ idx <= Len(enabledRules)
  /\ LET outcome == Analyze(enabledRules[idx], doc.text, doc.fsPath)
     IN /\ results' = PushResults(results, outcome)
        /\ errors' = IF outcome.threw THEN errors \cup {enabledRules[idx].id} ELSE errors
  /\ idx' = idx + 1
  /\ UNCHANGED <<otherVars, topLevelAwait, rules, settings, config, doc, pc, caller, options,
                 enabledRules, report, filterVars>>

\* the loop is over: analyzeFile returns its report
ReturnReport ==
  /\ pc = "loop"
  /\ idx > Len(enabledRules)
  /\ report' = [filePath |-> doc.fsPath, results |-> results,
                language |-> options.language, returned |-> TRUE]
  /\ pc' = "idle"
  /\ UNCHANGED <<otherVars, topLevelAwait, rules, settings, config, doc, caller, options,
                 enabledRules, idx, results, errors, filterVars>>

InitRun ==
  /\ caller = "none"
  /\ options = [enabledRules |-> {}, language |-> ""]
  /\ enabledRules = <<>>
  /\ idx = 1
  /\ results = <<>>
  /\ errors = {}
  /\ report = NoReport

InitFilter ==
  /\ filterStage = "none"
  /\ filtered = <<>>
  /\ refiltered = <<>>

\* no analyzer process, no report kept, no call waiting, nothing stored or shown
NoOutcome == [kind |-> "none"]

\* nothing stored or shown yet: results of no analysis
NoneShown == [run |-> 0, results |-> <<>>]

\* the document is open in a visible editor
NoUi == [stored |-> NoneShown, sidebar |-> NoneShown, decorations |-> NoneShown,
         codeActions |-> NoneShown, overlapped |-> FALSE, open |-> TRUE,
         viewResolved |-> FALSE, viewShown |-> NoneShown]

\* no analyze call of a rule is under way
NoWalk == [phase |-> "none"]

InitOther ==
  /\ pyOutcome = NoOutcome
  /\ walk = NoWalk
  /\ previous = [kept |-> FALSE]
  /\ tasks = <<>>
  /\ ui = NoUi
  /\ triggers = 0

\* the extension: constructed on some workspace settings, one document
Init ==
  /\ topLevelAwait = TRUE
  /\ rules = <<>>
  /\ settings \in {SettingsWith(u) : u \in DisablingConfigs}
  /\ config = settings
  /\ doc \in Documents
  /\ pc = "startup"
  /\ InitRun
  /\ InitFilter
  /\ InitOther

Next ==
  \/ ExtensionConstructor
  \/ \E u \in DisablingConfigs : ChangeSettings(u)
  \/ AnalyzeDocument
  \/ RunRule
  \/ ReturnReport

Spec == Init /\ [][Next]_vars

\* the extension analysing its document time and again
\* user settings between which the user goes back and forth: nothing,
\* one rule disabled, every rule disabled
RepeatConfigs ==
  {u \in DisablingConfigs :
     DOMAIN u \in {{}, {"unused-variable"}, BuiltinRuleIds}}

InitRepeat ==
  /\ topLevelAwait = TRUE
  /\ rules = <<>>
  /\ settings \in {SettingsWith(u) : u \in RepeatConfigs}
  /\ config = settings
  /\ doc \in Documents
  /\ pc = "startup"
  /\ InitRun
  /\ InitFilter
  /\ InitOther

NextRepeat ==
  \/ ExtensionConstructor
  \/ \E u \in RepeatConfigs : ChangeSettings(u)
  \/ AnalyzeDocument
  \/ AnalyzeDocumentAgain
  \/ RunRule
  \/ ReturnReport

SpecRepeat == InitRepeat /\ [][NextRepeat]_vars

\* the engine on its own: rules registered by its user, analyzeFile called
\* with the caller's allow-list
InitEngine ==
  /\ topLevelAwait = TRUE
  /\ rules = <<>>
  /\ settings = SettingsWith(Empty)
  /\ config = settings
  /\ doc \in Documents
  /\ pc = "startup"
  /\ InitRun
  /\ InitFilter
  /\ InitOther

NextEngine ==
  \/ \E rule \in CustomRules : RegisterRule(rule)
  \/ RegisterAllRules
  \/ Activate
  \/ \E allow \in AllowLists : AnalyzeFileCall(allow)
  \/ RunRule
  \/ ReturnReport

SpecEngine == InitEngine /\ [][NextEngine]_vars

(***************************************************************************)
(* Generated source texts, and one specification per rule: the extension   *)
(* analyses a document whose text is any well-formed sequence of items     *)
(***************************************************************************)
Names == {"a", "b"}

\* the items that may come next under parent p, by family of texts
Shapes(family, p) ==
  CASE family = "vars" ->
         {VarItem(p, t, n) : t \in {"Identifier", "ArrayPattern"}, n \in Names}
           \cup {UseItem(p, n, c) : n \in Names, c \in {"read", "write", "prop"}}
    [] family = "scopes" ->
         {VarItem(p, "Identifier", "a"), UseItem(p, "a", "read"),
          FuncItem(p, FALSE, "FunctionDeclaration", "f", 0)}
    [] family = "funcs" ->
         {FuncItem(p, a, "FunctionDeclaration", "f", 0) : a \in BOOLEAN} \cup {AwaitItem(p)}
    [] OTHER ->
         {FuncItem(p, FALSE, t, IF t = "FunctionDeclaration" THEN "f" ELSE "", fl) :
            t \in {"FunctionDeclaration", "ArrowFunctionExpression", "ObjectMethod"},
            fl \in {0, 47, 48, 49}}

\* the functions still open after the last item of s, and the top level
OpenParents(s) ==
  {p \in 0..Len(s) : p = 0 \/ (s[p].k = "func" /\ IsAncestorOrSelf(s, p, Len(s)))}

RECURSIVE Sources(_, _)
\* the texts of at most n items
Sources(family, n) ==
  IF n = 0 THEN {<<>>}
  ELSE LET prev == Sources(family, n - 1)
       IN prev \cup UNION {{Append(s, it) : it \in UNION {Shapes(family, p) : p \in OpenParents(s)}} :
                             s \in {t \in prev : Len(t) = n - 1}}

JsDocument(text) == [fsPath |-> "js", languageId |-> "javascript", text |-> text]

InitRule(texts, userConfigs, tla) ==
  /\ topLevelAwait \in tla
  /\ rules = registerAllRules(<<>>)
  /\ settings \in {SettingsWith(u) : u \in userConfigs}
  /\ config = settings
  /\ doc \in {JsDocument(t) : t \in texts}
  /\ pc = "idle"
  /\ InitRun
  /\ InitFilter
  /\ InitOther

NextRule ==
  \/ AnalyzeDocument
  \/ RunRule
  \/ ReturnReport

InitUnused == InitRule(Sources("vars", MaxVarItems), {Empty}, {TRUE})

SpecUnused == InitUnused /\ [][NextRule]_vars

InitAsync == InitRule(Sources("funcs", MaxFuncItems), {Empty}, BOOLEAN)

SpecAsync == InitAsync /\ [][NextRule]_vars

\* texts in which one name is declared and read in nested function scopes
InitScopes == InitRule(Sources("scopes", MaxScopeItems), {Empty}, {TRUE})

SpecScopes == InitScopes /\ [][NextRule]_vars

\* user settings that override the severity of one javascript rule
SeverityConfigs ==
  {Empty} \cup {[r \in {id} |-> [severity |-> sev]] :
                  id \in BuiltinRuleIds, sev \in {"error", "info"}}

InitSeverity == InitRule({d.text : d \in Documents}, SeverityConfigs, {TRUE})

SpecSeverity == InitSeverity /\ [][NextRule]_vars

\* user settings for the long-function threshold
MaxLinesConfigs ==
  {Empty} \cup {[r \in {"long-function"} |-> [maxLines |-> n]] : n \in {49, 51}}

InitLong == InitRule(Sources("long", MaxLongItems), MaxLinesConfigs, {TRUE})

SpecLong == InitLong /\ [][NextRule]_vars

(***************************************************************************)
(* The configuration filter on its own: any list of findings, a language   *)
(* and a configuration; the filter runs on the list, then on its output    *)
(***************************************************************************)
Severities == {"info", "error"}

\* rule ids of findings: one with a default entry in both languages, one
\* with a default entry for python only, one only the user may configure,
\* and the id of the analyzer's own syntax-error finding
FindingRuleIds == {"long-function", "bare-except", "my-rule", "syntax_error"}

SomeFinding(ruleId, severity) ==
  [message |-> <<"finding">>, severity |-> severity, category |-> "code-smell",
   range |-> [start |-> [line |-> 0, character |-> 0], end |-> [line |-> 0, character |-> 1]],
   ruleId |-> ruleId, suggestion |-> <<>>]

RECURSIVE FindingLists(_)
\* the lists of at most n findings
FindingLists(n) ==
  IF n = 0 THEN {<<>>}
  ELSE LET prev == FindingLists(n - 1)
       IN prev \cup {Append(fs, SomeFinding(r, sv)) :
                       fs \in {t \in prev : Len(t) = n - 1},
                       r \in FindingRuleIds, sv \in Severities}

\* user rule settings: entries that override a part of a default entry,
\* and whole entries for a rule without a default
FilterUserConfigs ==
  {Empty} \cup {[r \in {"long-function"} |-> e] : e \in {[enabled |-> FALSE], [severity |-> "error"]}}
          \cup {[r \in {"my-rule"} |-> [enabled |-> b, severity |-> "info"]] : b \in BOOLEAN}
          \cup {[r \in {"bare-except"} |-> [enabled |-> FALSE]]}

\* the per-severity toggles the user has set; one not set shows
SeverityToggles ==
  {Empty, [s \in {"info"} |-> FALSE], [s \in {"error"} |-> FALSE],
   [s \in {"info", "error"} |-> FALSE]}

InitFilterOnly ==
  /\ topLevelAwait = TRUE
  /\ rules = registerAllRules(<<>>)
  /\ settings \in {SettingsOf(u, u, t) : u \in FilterUserConfigs, t \in SeverityToggles}
  /\ config = settings
  /\ \E language \in {"javascript", "python"} :
       /\ doc = [fsPath |-> IF language = "python" THEN "py" ELSE "js",
                 languageId |-> language, text |-> <<>>]
       /\ options = [enabledRules |-> {}, language |-> language]
       /\ \E fs \in FindingLists(MaxFindings) :
            report = [filePath |-> doc.fsPath, results |-> fs,
                      language |-> language, returned |-> TRUE]
  /\ pc = "idle"
  /\ caller = "none"
  /\ enabledRules = <<>>
  /\ idx = 1
  /\ results = <<>>
  /\ errors = {}
  /\ InitFilter
  /\ InitOther

\* the filter on the findings of the report
ApplyFilter ==
  /\ pc = "idle" /\ report.returned
  /\ filterStage = "none"
  /\ filtered' = filter(report.results, mapLanguageId(report.language), config)
  /\ filterStage' = "once"
  /\ UNCHANGED <<otherVars, topLevelAwait, rules, settings, config, doc, pc, runVars, refiltered>>

\* the filter on its own output, under the same language and configuration
ApplyFilterAgain ==
  /\ filterStage = "once"
  /\ refiltered' = filter(filtered, mapLanguageId(report.language), config)
  /\ filterStage' = "twice"
  /\ UNCHANGED <<otherVars, topLevelAwait, rules, settings, config, doc, pc, runVars, filtered>>

NextFilter ==
  \/ ApplyFilter
  \/ ApplyFilterAgain

SpecFilter == InitFilterOnly /\ [][NextFilter]_vars

(***************************************************************************)
(* The python path: the analyzer process yields any of a set of outputs,   *)
(* PythonAnalyzer.analyzeFile makes the report, the filter runs on it      *)
(***************************************************************************)
PythonIssueOf(type, severity, line, rule) ==
  JsonObject([type |-> type, severity |-> severity, message |-> "m",
              line |-> line, rule |-> rule])

\* issues as the analyzer script writes them
WellFormedIssues ==
  {PythonIssueOf("code_smell", "warning", 3, "long-function"),
   PythonIssueOf("potential_issue", "error", 3, "bare-except"),
   PythonIssueOf("suggestion", "info", 7, "bare-except")}

\* issues that are not of the shape {type, severity, message, line, rule}:
\* no rule, no message, a severity outside the enumeration, null
MalformedIssues ==
  {JsonObject([type |-> "code_smell", severity |-> "warning", message |-> "m", line |-> 3]),
   JsonObject([type |-> "code_smell", severity |-> "warning", line |-> 3,
               rule |-> "bare-except"]),
   PythonIssueOf("code_smell", "critical", 3, "bare-except"),
   JsonNull}

RECURSIVE IssueLists(_)
\* the lists of at most n issues
IssueLists(n) ==
  IF n = 0 THEN {<<>>}
  ELSE LET prev == IssueLists(n - 1)
       IN prev \cup {Append(l, i) : l \in {t \in prev : Len(t) = n - 1},
                                    i \in WellFormedIssues \cup MalformedIssues}

JsonBool(b) == [t |-> "bool", v |-> b]

JsonString(str) == [t |-> "string", v |-> str]

JsonList(l) == [t |-> "list", v |-> l]

\* what the process can yield: no process or a failing one, output that is
\* not JSON, and JSON of the expected shape or off it
PyOutcomes ==
  {[kind |-> "execError"], [kind |-> "notJson"], [kind |-> "json", value |-> JsonNull]}
    \cup {[kind |-> "json", value |-> JsonObject(f)] :
            f \in {[success |-> JsonBool(TRUE), issues |-> JsonList(l)] :
                     l \in IssueLists(MaxIssues)}
                  \cup {[success |-> JsonBool(TRUE)],
                        [success |-> JsonBool(TRUE), issues |-> JsonString("none")],
                        [success |-> JsonBool(TRUE), issues |-> JsonString("")],
                        [success |-> JsonBool(FALSE)],
                        [success |-> JsonBool(FALSE), message |-> JsonString("bad syntax")],
                        [issues |-> JsonList(<<>>)],
                        [success |-> JsonString("false"),
                         issues |-> JsonList(<<PythonIssueOf("code_smell", "warning", 3,
                                                             "long-function")>>)]}}

\* user settings of the python rules: none, a default rule switched off,
\* and entries for the ids of the findings made up on a failure
PythonUserConfigs ==
  {Empty, [r \in {"bare-except"} |-> [enabled |-> FALSE]]}
    \cup {[r \in {id} |-> [enabled |-> TRUE, severity |-> "error"]] :
            id \in {"syntax_error", "analysis_error"}}

PyDocument == [fsPath |-> "py", languageId |-> "python", text |-> <<>>]

InitPython ==
  /\ topLevelAwait = TRUE
  /\ rules = registerAllRules(<<>>)
  /\ settings \in {SettingsOf(Empty, u, t) :
                     u \in PythonUserConfigs, t \in {Empty, [s \in {"error"} |-> FALSE]}}
  /\ config = settings
  /\ doc = PyDocument
  /\ pc = "idle"
  /\ InitRun
  /\ InitFilter
  /\ pyOutcome \in PyOutcomes
  /\ walk = NoWalk
  /\ previous = [kept |-> FALSE]
  /\ tasks = <<>>
  /\ ui = NoUi
  /\ triggers = 0

\* PythonAnalyzer.analyzeFile on the document, up to the report it returns
AnalyzePythonFile ==
  /\ pc = "idle"
  /\ isPythonFile(doc.fsPath)
  /\ ~report.returned
  /\ report' = PythonAnalyzeFile(doc.fsPath, pyOutcome)
  /\ options' = [enabledRules |-> {}, language |-> "python"]
  /\ UNCHANGED <<otherVars, topLevelAwait, rules, settings, config, doc, pc, caller,
                 enabledRules, idx, results, errors, filterVars>>

\* both paths side by side: a javascript or typescript document goes
\* through the tree-based rules, a python document through the analyzer
InitBoth ==
  /\ topLevelAwait = TRUE
  /\ rules = registerAllRules(<<>>)
  /\ settings = SettingsWith(Empty)
  /\ config = settings
  /\ doc \in Documents \cup {JsDocument(t) : t \in Sources("funcs", MaxFuncItems)}
               \cup {PyDocument}
  /\ pc = "idle"
  /\ InitRun
  /\ InitFilter
  /\ pyOutcome \in (IF isPythonFile(doc.fsPath) THEN PyOutcomes ELSE {NoOutcome})
  /\ walk = NoWalk
  /\ previous = [kept |-> FALSE]
  /\ tasks = <<>>
  /\ ui = NoUi
  /\ triggers = 0

\* a document that is not a python file takes the tree-based path
AnalyzeTreeDocument ==
  /\ ~isPythonFile(doc.fsPath)
  /\ AnalyzeDocument

NextBoth ==
  \/ AnalyzeTreeDocument
  \/ RunRule
  \/ ReturnReport
  \/ AnalyzePythonFile

SpecBoth == InitBoth /\ [][NextBoth]_vars

(***************************************************************************)
(* Overlapping analyses of a python document: every save starts an         *)
(* analysis without waiting for the one before; the analyzer processes     *)
(* finish in any order                                                     *)
(***************************************************************************)
\* what the analyzer finds in the saved text: an issue, nothing once the
\* text is fixed, or a failure of the process
SaveOutcomes ==
  {[kind |-> "json",
    value |-> JsonObject([success |-> JsonBool(TRUE),
                          issues |-> JsonList(<<PythonIssueOf("potential_issue", "error", 3,
                                                               "bare-except")>>)])],
   [kind |-> "json",
    value |-> JsonObject([success |-> JsonBool(TRUE), issues |-> JsonList(<<>>)])],
   [kind |-> "execError"]}

\* the sequence without its i-th element
RemoveAt(seq, i) == SubSeq(seq, 1, i - 1) \o SubSeq(seq, i + 1, Len(seq))

\* onDidSaveTextDocument: shouldAnalyzeFile, then analyzeDocument up to its
\* await: the configuration is refreshed and the analysis is under way
SaveDocument(outcome) ==
  /\ pc = "idle"
  /\ triggers < MaxAnalyses
  /\ config.enabled
  /\ doc.languageId \in getSupportedLanguages
  /\ config' = settings
  /\ triggers' = triggers + 1
  /\ ui.open
  /\ tasks' = Append(tasks, [run |-> triggers + 1, outcome |-> outcome,
                              snapshot |-> settings])
  /\ ui' = [ui EXCEPT !.overlapped = @ \/ tasks # <<>>]
  /\ UNCHANGED <<pyOutcome, walk, previous, topLevelAwait, rules, settings, doc, pc, runVars,
                 filterVars>>

\* analyzeDocument after its await: the report is stored, sent to the
\* sidebar and, with inline hints on and the document visible, given to
\* the decorations and the code actions
CompleteAnalysis(i) ==
  /\ i \in DOMAIN tasks
  /\ LET shown == [run |-> tasks[i].run,
                   results |-> PythonAnalyzeFile(doc.fsPath, tasks[i].outcome).results]
     IN ui' = [ui EXCEPT !.stored = shown,
                         !.sidebar = shown,
                         !.viewShown = IF ui.viewResolved THEN shown ELSE @,
                         !.decorations =
                            IF config.showInlineHints /\ ui.open THEN shown ELSE @,
                         !.codeActions =
                            IF config.showInlineHints /\ ui.open THEN shown ELSE @]
  /\ tasks' = RemoveAt(tasks, i)
  /\ UNCHANGED <<pyOutcome, walk, previous, triggers, topLevelAwait, rules, settings, config, doc,
                 pc, runVars, filterVars>>

InitOverlap ==
  /\ topLevelAwait = TRUE
  /\ rules = registerAllRules(<<>>)
  /\ settings = SettingsWith(Empty)
  /\ config = settings
  /\ doc = PyDocument
  /\ pc = "idle"
  /\ InitRun
  /\ InitFilter
  /\ InitOther

NextOverlap ==
  \/ \E outcome \in SaveOutcomes : SaveDocument(outcome)
  \/ \E i \in 1..MaxAnalyses : CompleteAnalysis(i)

SpecOverlap == InitOverlap /\ [][NextOverlap]_vars

\* resolveWebviewView: the sidebar view is created with its initial page
ResolveWebviewView ==
  /\ ~ui.viewResolved
  /\ ui' = [ui EXCEPT !.viewResolved = TRUE, !.viewShown = NoneShown]
  /\ UNCHANGED <<pyOutcome, walk, previous, tasks, triggers, topLevelAwait, rules, settings,
                 config, doc, pc, runVars, filterVars>>

\* analyses of a document and the sidebar view, resolved when the user
\* first opens it
NextSidebar ==
  \/ \E outcome \in SaveOutcomes : SaveDocument(outcome)
  \/ \E i \in 1..MaxAnalyses : CompleteAnalysis(i)
  \/ ResolveWebviewView

SpecSidebar == InitOverlap /\ [][NextSidebar]_vars

\* the user flips codeSurfer.showInlineHints in the settings
ChangeInlineHints ==
  /\ settings' = [settings EXCEPT !.showInlineHints = ~@]
  /\ UNCHANGED <<otherVars, topLevelAwait, rules, config, doc, pc, runVars, filterVars>>

\* the refresh command: the stored report and the decorations of the
\* document are cleared, then analyzeDocument runs up to its await
RefreshAnalysis(outcome) ==
  /\ pc = "idle"
  /\ triggers < MaxAnalyses
  /\ config.enabled
  /\ doc.languageId \in getSupportedLanguages
  /\ ui.open
  /\ config' = settings
  /\ triggers' = triggers + 1
  /\ tasks' = Append(tasks, [run |-> triggers + 1, outcome |-> outcome,
                              snapshot |-> settings])
  /\ ui' = [ui EXCEPT !.stored = NoneShown, !.decorations = NoneShown,
                      !.overlapped = @ \/ tasks # <<>>]
  /\ UNCHANGED <<pyOutcome, walk, previous, topLevelAwait, rules, settings, doc, pc, runVars,
                 filterVars>>

\* onDidCloseTextDocument: the document's stored report, decorations and
\* code-action results are removed
CloseDocument ==
  /\ ui.open
  /\ ui' = [ui EXCEPT !.stored = NoneShown, !.decorations = NoneShown,
                      !.codeActions = NoneShown, !.open = FALSE]
  /\ UNCHANGED <<pyOutcome, walk, previous, tasks, triggers, topLevelAwait, rules, settings, config,
                 doc, pc, runVars, filterVars>>

\* the life of a python document in the editor: saves and refreshes that
\* start analyses, analyses completing in any order, the inline-hint setting
\* changed in between, the document closed
NextLifecycle ==
  \/ \E outcome \in SaveOutcomes : SaveDocument(outcome)
  \/ \E outcome \in SaveOutcomes : RefreshAnalysis(outcome)
  \/ \E i \in 1..MaxAnalyses : CompleteAnalysis(i)
  \/ ChangeInlineHints
  \/ CloseDocument

SpecLifecycle == InitOverlap /\ [][NextLifecycle]_vars

(***************************************************************************)
(* Triggers and the global toggle: the user switches codeSurfer.enabled    *)
(* between saves of a document                                             *)
(***************************************************************************)
\* ConfigurationManager.isEnabled: reads the snapshot taken at the last refresh
isEnabled(cfg) == cfg.enabled

\* CodeSurferExtension.shouldAnalyzeFile
shouldAnalyzeFile(cfg, document) ==
  isEnabled(cfg) /\ document.languageId \in getSupportedLanguages

\* the user flips codeSurfer.enabled in the settings
ChangeEnabled ==
  /\ pc = "idle"
  /\ settings' = [settings EXCEPT !.enabled = ~@]
  /\ UNCHANGED <<otherVars, topLevelAwait, rules, config, doc, pc, runVars, filterVars>>

\* the onDidSaveTextDocument handler: if (shouldAnalyzeFile(document))
\* analyzeDocument(document)
OnDidSaveTextDocument ==
  /\ pc = "idle"
  /\ triggers < MaxTriggers
  /\ triggers' = triggers + 1
  /\ IF shouldAnalyzeFile(config, doc)
     THEN StartAnalyzeDocument /\ UNCHANGED <<previous, ui>>
     ELSE UNCHANGED <<pyOutcome, walk, previous, tasks, ui, topLevelAwait, rules, settings, config,
                      doc, pc, runVars, filterVars>>

InitTrigger ==
  /\ topLevelAwait = TRUE
  /\ rules = registerAllRules(<<>>)
  /\ settings \in {[SettingsWith(Empty) EXCEPT !.enabled = e] : e \in BOOLEAN}
  /\ config = settings
  /\ doc \in Documents
  /\ pc = "idle"
  /\ InitRun
  /\ InitFilter
  /\ InitOther

NextTrigger ==
  \/ ChangeEnabled
  \/ OnDidSaveTextDocument
  \/ RunRule
  \/ ReturnReport

SpecTrigger == InitTrigger /\ [][NextTrigger]_vars

(***************************************************************************)
(* One rule instance, analyze call after analyze call, the traversal taken *)
(* node by node: BaseRule.analyze builds the visitor, traverse calls its   *)
(* handlers in pre-order and Program.exit last                             *)
(***************************************************************************)
\* the accumulation state getVisitor creates: the maps and sets of the
\* aggregating rules, nothing but the results for long-function
EmptyVisitorState(rule) ==
  CASE rule.kind = "unused" -> [declaredVars |-> <<>>, usedVars |-> {}]
    [] rule.kind = "async" -> [funcs |-> <<>>, hasAwait |-> {}]
    [] OTHER -> <<>>

\* a set of used names held by the rule instance: what the last call of
\* the rule left in it is still there
VisitorStateKeptOnInstance(rule, w) ==
  IF w.phase = "done" /\ w.rule = rule /\ rule.kind = "unused"
  THEN [declaredVars |-> <<>>, usedVars |-> w.st.usedVars]
  ELSE EmptyVisitorState(rule)

\* the state a call of analyze starts from: getVisitor creates it anew
NewVisitorState(rule, w) == EmptyVisitorState(rule)

\* a visitor that finalizes at every node instead of at Program.exit
WalkVisitFinalizingEveryNode(w) ==
  LET n == w.order[w.pos]
      st == Visit(w.rule, w.st, w.nodes, n)
  IN [w EXCEPT !.pos = @ + 1, !.st = st,
               !.out = CASE w.rule.kind = "long" -> st
                         [] w.rule.kind = "unused" -> UnusedExit(st, w.nodes)
                         [] OTHER -> AsyncExit(st, w.nodes)]

\* traverse calls the enter handlers on the next node
WalkVisit(w) ==
  LET n == w.order[w.pos]
      st == Visit(w.rule, w.st, w.nodes, n)
  IN [w EXCEPT !.pos = @ + 1, !.st = st,
               !.out = IF w.rule.kind = "long" THEN st ELSE @]

\* traverse has left the Program node: Program.exit, for the rules that have one
WalkExit(w) ==
  CASE w.rule.kind = "long" -> [w EXCEPT !.phase = "done"]
    [] w.rule.kind = "unused" ->
         [w EXCEPT !.phase = "done", !.exits = @ + 1,
                   !.out = @ \o UnusedExit(w.st, w.nodes)]
    [] OTHER ->
         [w EXCEPT !.phase = "done", !.exits = @ + 1,
                   !.out = @ \o AsyncExit(w.st, w.nodes)]

walkFrame == <<pyOutcome, previous, tasks, ui, triggers, topLevelAwait, rules, settings,
               config, pc, runVars, filterVars>>

\* rule.analyze(code, filePath) up to the traversal
StartAnalyze(rule) ==
  /\ walk.phase # "traverse"
  /\ LET ast == parseCode(doc.text, getLanguageFromPath(doc.fsPath))
     IN walk' = [phase |-> IF ast.ok THEN "traverse" ELSE "done",
                 rule |-> rule,
                 code |-> doc.text,
                 filePath |-> doc.fsPath,
                 earlier |-> IF walk.phase = "done" /\ walk.rule = rule
                             THEN walk.code ELSE <<>>,
                 nodes |-> ast.nodes,
                 order |-> IF ast.ok THEN PreOrder(ast.nodes, 1) ELSE <<>>,
                 pos |-> 1,
                 st |-> NewVisitorState(rule, walk),
                 out |-> <<>>,
                 exits |-> 0]
  /\ UNCHANGED <<walkFrame, doc>>

VisitNode ==
  /\ walk.phase = "traverse"
  /\ walk.pos <= Len(walk.order)
  /\ walk' = WalkVisit(walk)
  /\ UNCHANGED <<walkFrame, doc>>

LeaveProgram ==
  /\ walk.phase = "traverse"
  /\ walk.pos > Len(walk.order)
  /\ walk' = WalkExit(walk)
  /\ UNCHANGED <<walkFrame, doc>>

\* the next call is given another file
NextFile(document) ==
  /\ walk.phase = "done"
  /\ doc' = document
  /\ doc' # doc
  /\ UNCHANGED <<walkFrame, walk>>

InitWalk ==
  /\ topLevelAwait = TRUE
  /\ rules = registerAllRules(<<>>)
  /\ settings = SettingsWith(Empty)
  /\ config = settings
  /\ doc \in Documents
  /\ pc = "idle"
  /\ InitRun
  /\ InitFilter
  /\ InitOther

NextWalk ==
  \/ \E i \in DOMAIN rules : StartAnalyze(rules[i])
  \/ VisitNode
  \/ LeaveProgram
  \/ \E d \in Documents : NextFile(d)

SpecWalk == InitWalk /\ [][NextWalk]_vars

NextPython ==
  \/ AnalyzePythonFile
  \/ ApplyFilter

SpecPython == InitPython /\ [][NextPython]_vars

(***************************************************************************)
(* Properties of the engine's run                                          *)
(***************************************************************************)
\* the results the rules of `rs` give on the document, in order, those of
\* the rules that throw left out
ResultsOfNonThrowing(rs) ==
  FlattenSeq([i \in DOMAIN rs |->
                IF Analyze(rs[i], doc.text, doc.fsPath).threw THEN <<>>
                ELSE Analyze(rs[i], doc.text, doc.fsPath).results])

ThrowingIds(rs) == {rs[i].id : i \in {j \in DOMAIN rs : Analyze(rs[j], doc.text, doc.fsPath).threw}}

\* C1: a rule that throws is logged and skipped; the run goes on through
\* every enabled rule and the report holds the results of all the rules
\* that did not throw, in the order of the enabled rules.
C1_ThrowingRuleSkipped ==
  /\ pc = "loop" =>
        /\ results = ResultsOfNonThrowing(SubSeq(enabledRules, 1, idx - 1))
        /\ errors = ThrowingIds(SubSeq(enabledRules, 1, idx - 1))
  /\ report.returned =>
        /\ idx = Len(enabledRules) + 1
        /\ report.results = ResultsOfNonThrowing(enabledRules)
        /\ errors = ThrowingIds(enabledRules)

\* a returned report of a run in which a throwing rule ran before a rule
\* whose results are in the report
C1_Witness ==
  /\ report.returned
  /\ \E i, j \in DOMAIN enabledRules :
       /\ i < j
       /\ Analyze(enabledRules[i], doc.text, doc.fsPath).threw
       /\ \E k \in DOMAIN report.results : report.results[k].ruleId = enabledRules[j].id
  /\ \E i, j \in DOMAIN enabledRules :
       /\ i < j
       /\ Analyze(enabledRules[j], doc.text, doc.fsPath).threw
       /\ \E k \in DOMAIN report.results : report.results[k].ruleId = enabledRules[i].id

DocSyntaxError ==
  SyntaxError(doc.text, getLanguageFromPath(doc.fsPath) \in {"typescript", "typescriptreact"})

\* C2: when the text of the file does not parse in the language of its
\* path, analyzeFile still returns a report: it carries the language of the
\* call, no finding of any parser-based rule, and no such rule has thrown.
C2_ParseFailureGivesEmptyReport ==
  (report.returned /\ DocSyntaxError) =>
    /\ report.language = options.language
    /\ report.language # ""
    /\ \A k \in DOMAIN report.results : report.results[k].ruleId \notin BuiltinRuleIds
    /\ (\A i \in DOMAIN enabledRules : enabledRules[i].id \in BuiltinRuleIds)
         => report.results = <<>>
    /\ errors \cap BuiltinRuleIds = {}

\* a returned report for a text with a syntax error on which the three
\* parser-based rules ran
C2_Witness ==
  /\ report.returned
  /\ DocSyntaxError
  /\ BuiltinRuleIds \subseteq {enabledRules[i].id : i \in DOMAIN enabledRules}
  /\ \E i \in DOMAIN doc.text : doc.text[i].k = "var"

\* the rule configuration in force for the document of the run
DocRuleConfig == getRuleConfig(config, mapLanguageId(options.language))

\* C3: a rule the configuration of the document's language disables has no
\* finding in the report of an analysis of the document, also when the
\* configuration disables every rule.
C3_DisabledRuleHasNoFinding ==
  (report.returned /\ caller = "document") =>
    \A k \in DOMAIN report.results :
      LET r == report.results[k].ruleId
      IN ~(r \in DOMAIN DocRuleConfig /\ ~EntryEnabled(DocRuleConfig[r]))

RegisteredRules == Range(rules)

\* C4 as stated: the rules of a run are all the registered rules when the
\* allow-list is empty, else the registered rules whose id is in the list.
C4_EnabledSetIgnoringFlag ==
  (pc = "loop" \/ report.returned) =>
    Range(enabledRules) =
      IF options.enabledRules = {} THEN RegisteredRules
      ELSE {r \in RegisteredRules : r.id \in options.enabledRules}

\* C4: the rules of a run are the registered rules whose own enabled flag
\* is true when the allow-list is empty, else the registered rules whose
\* enabled flag is true and whose id is in the allow-list; ids of the list
\* that are not registered add nothing, and no rule is taken twice.
C4_EnabledSet ==
  (pc = "loop" \/ report.returned) =>
    /\ Range(enabledRules) =
         IF options.enabledRules = {} THEN {r \in RegisteredRules : r.enabled}
         ELSE {r \in RegisteredRules : r.enabled /\ r.id \in options.enabledRules}
    /\ \A i, j \in DOMAIN enabledRules : i # j => enabledRules[i] # enabledRules[j]

\* a run whose allow-list names a registered rule, a registered rule whose
\* own flag is off and an id that is not registered: only the first runs
C4_Witness ==
  /\ pc = "loop"
  /\ options.enabledRules = {"long-function", "custom-a", "not-registered"}
  /\ \E r \in RegisteredRules : r.id = "custom-a" /\ ~r.enabled
  /\ enabledRules = <<LongFunctionRule>>

(***************************************************************************)
(* Properties of the rules, stated on the text of the document             *)
(***************************************************************************)
\* the items of the text that declare the variable `name`
DeclarationsOf(text, name) == {i \in DOMAIN text : text[i].k = "var" /\ text[i].name = name}

DeclaredNames(text) == {text[i].name : i \in {j \in DOMAIN text : text[j].k = "var"}}

\* the occurrences of `name` whose value is read
ReadReferences(text, name) ==
  {i \in DOMAIN text : text[i].k = "use" /\ text[i].name = name /\ text[i].ctx = "read"}

\* the findings of rule `id` in the report, as indices
FindingsOf(id) == {k \in DOMAIN report.results : report.results[k].ruleId = id}

\* the range of the declared identifier of declaration i: the line is
\* 0-based, the name follows `const ` or `const [`
DeclarationRange(text, i) ==
  LET col == IF text[i].idType = "Identifier" THEN 6 ELSE 7
  IN [start |-> [line |-> StartLine(text, i) - 1, character |-> col],
      end |-> [line |-> StartLine(text, i) - 1, character |-> col + 1]]

\* C5: for each declared variable name the report has exactly one
\* unused-variable finding, anchored at a declaration of the name, when
\* the name has no read reference, and none when it has one; declarations,
\* assignment targets and property names are not read references.
C5_OneFindingPerUnusedName ==
  report.returned =>
    /\ \A name \in DeclaredNames(doc.text) :
         LET found == {k \in FindingsOf("unused-variable") :
                         report.results[k].message[2] = name}
         IN IF ReadReferences(doc.text, name) = {}
            THEN /\ Cardinality(found) = 1
                 /\ \A k \in found :
                      \E i \in DeclarationsOf(doc.text, name) :
                        report.results[k].range = DeclarationRange(doc.text, i)
            ELSE found = {}
    /\ \A k \in FindingsOf("unused-variable") :
         report.results[k].message[2] \in DeclaredNames(doc.text)

\* the full range of function i: its signature line to its closing brace
FunctionRange(text, i) ==
  [start |-> [line |-> StartLine(text, i) - 1, character |-> 0],
   end |-> [line |-> EndLine(text, i) - 1, character |-> 1]]

Functions(text) == {i \in DOMAIN text : text[i].k = "func"}

\* the await expressions whose nearest enclosing function is i
OwnAwaits(text, i) == {j \in DOMAIN text : text[j].k = "await" /\ text[j].parent = i}

\* the findings of rule `id` anchored at function i
FindingsAt(id, i) ==
  {k \in FindingsOf(id) : report.results[k].range = FunctionRange(doc.text, i)}

\* C6: on a text that parses, the report has exactly one
\* async-without-await finding, anchored at the function's full range, for
\* each async function that is the nearest enclosing function of no await,
\* none for any other function, and no further finding of the rule; an
\* await in a nested async function counts for the inner function only.
C6_AsyncWithoutAwait ==
  (report.returned /\ ~DocSyntaxError) =>
    /\ \A i \in Functions(doc.text) :
         Cardinality(FindingsAt("async-without-await", i)) =
           IF doc.text[i].async /\ OwnAwaits(doc.text, i) = {} THEN 1 ELSE 0
    /\ Cardinality(FindingsOf("async-without-await")) =
         Cardinality({i \in Functions(doc.text) :
                        doc.text[i].async /\ OwnAwaits(doc.text, i) = {}})

\* an async function without an await of its own around an async function
\* that awaits: the report has one finding, at the outer function
C6_Witness ==
  /\ report.returned
  /\ ~DocSyntaxError
  /\ \E o, i \in Functions(doc.text) :
       /\ doc.text[i].parent = o
       /\ doc.text[o].async /\ doc.text[i].async
       /\ OwnAwaits(doc.text, o) = {} /\ OwnAwaits(doc.text, i) # {}
       /\ FindingsAt("async-without-await", o) # {}
       /\ FindingsAt("async-without-await", i) = {}
  /\ Cardinality(FindingsOf("async-without-await")) = 1

\* the lines function i spans, both ends counted
LengthOf(text, i) == EndLine(text, i) - StartLine(text, i) + 1

\* C7: the report has a long-function finding for a function if and only if
\* its length endLine - startLine + 1 is greater than 50 (50 lines: none,
\* 51 lines: one), and the message of the finding carries that length and
\* the threshold 50.
C7_LongFunctionThreshold ==
  report.returned =>
    /\ \A i \in Functions(doc.text) :
         /\ Cardinality(FindingsAt("long-function", i)) =
              IF LengthOf(doc.text, i) > 50 THEN 1 ELSE 0
         /\ \A k \in FindingsAt("long-function", i) :
              /\ report.results[k].message[3] = LengthOf(doc.text, i)
              /\ report.results[k].message[4] = 50
    /\ Cardinality(FindingsOf("long-function")) =
         Cardinality({i \in Functions(doc.text) : LengthOf(doc.text, i) > 50})

\* a function of exactly 50 lines and one of exactly 51 in one text: the
\* report has a finding for the second only
C7_Witness ==
  /\ report.returned
  /\ \E i, j \in Functions(doc.text) :
       /\ LengthOf(doc.text, i) = 50 /\ LengthOf(doc.text, j) = 51
       /\ FindingsAt("long-function", i) = {}
       /\ \E k \in FindingsAt("long-function", j) : report.results[k].message[3] = 51
  /\ Cardinality(FindingsOf("long-function")) = 1

\* the long-function threshold the configuration of the run resolves to
ConfiguredMaxLines ==
  getRuleParameter(config, mapLanguageId(options.language), "long-function", "maxLines",
                   MAX_LINES)

\* C8: when the resolved configuration sets maxLines = N for long-function,
\* the report has a long-function finding for exactly the functions longer
\* than N lines, and the message of the finding carries N as the threshold.
C8_ConfiguredThreshold ==
  report.returned =>
    \A i \in Functions(doc.text) :
      /\ Cardinality(FindingsAt("long-function", i)) =
           IF LengthOf(doc.text, i) > ConfiguredMaxLines THEN 1 ELSE 0
      /\ \A k \in FindingsAt("long-function", i) :
           report.results[k].message[4] = ConfiguredMaxLines

(***************************************************************************)
(* Properties of the configuration filter                                  *)
(***************************************************************************)
\* the settings of rule r that decide, spelled out from the defaults and
\* the user's settings of the language: an entry exists, the user's
\* `enabled` wins over the default's, and the severity is not toggled off
EntryExists(language, r) ==
  r \in DOMAIN getDefaultRuleConfig(language) \/ r \in DOMAIN config.rules[language]

EntrySaysEnabled(language, r) ==
  IF r \in DOMAIN config.rules[language] /\ "enabled" \in DOMAIN config.rules[language][r]
  THEN config.rules[language][r].enabled
  ELSE r \in DOMAIN getDefaultRuleConfig(language) /\ getDefaultRuleConfig(language)[r].enabled

SeverityVisible(severity) ==
  ~(severity \in DOMAIN config.severity /\ config.severity[severity] = FALSE)

PassesFilter(finding) ==
  /\ EntryExists(mapLanguageId(report.language), finding.ruleId)
  /\ EntrySaysEnabled(mapLanguageId(report.language), finding.ruleId)
  /\ SeverityVisible(finding.severity)

\* C9: the filter keeps a finding if and only if the resolved
\* configuration has an entry for its ruleId, the entry is enabled and the
\* severity of the finding is visible; it drops every other finding.
C9_FilterKeepsExactly ==
  filterStage # "none" => filtered = SelectSeq(report.results, PassesFilter)

\* a python report with a finding of a rule the user has disabled and a
\* finding of a rule enabled by default: the filter keeps the second only
C9_Witness ==
  /\ filterStage = "once"
  /\ report.language = "python"
  /\ Len(report.results) = 2
  /\ report.results[1].ruleId = "long-function"
  /\ report.results[2].ruleId = "bare-except"
  /\ ~EntrySaysEnabled("python", "long-function")
  /\ filtered = <<report.results[2]>>

\* C10: the filter applied to its own output, under the same language and
\* configuration, gives that output again.
C10_FilterIdempotent ==
  filterStage = "twice" => refiltered = filtered

\* the filter has run twice on a list of which it dropped a finding and
\* kept a finding the first time
C10_Witness ==
  /\ filterStage = "twice"
  /\ filtered # <<>>
  /\ Len(filtered) < Len(report.results)
  /\ refiltered = filtered

RECURSIVE IsSubsequence(_, _)
\* a is b with some elements left out: same elements, same order
IsSubsequence(a, b) ==
  IF a = <<>> THEN TRUE
  ELSE IF b = <<>> THEN FALSE
  ELSE IF Head(a) = Head(b) THEN IsSubsequence(Tail(a), Tail(b))
  ELSE IsSubsequence(a, Tail(b))

\* what a step that runs the filter leaves alone and produces
FilterStepFrame ==
  /\ (filterStage = "none" /\ filterStage' = "once") =>
        (report' = report /\ IsSubsequence(filtered', report.results))
  /\ (filterStage = "once" /\ filterStage' = "twice") =>
        (report' = report /\ filtered' = filtered
           /\ IsSubsequence(refiltered', filtered))

\* C11: a run of the filter leaves the list it was given as it was, and its
\* output is a subsequence of that list: the findings that survive, each
\* as it was in the input, in the input's order, none added or repeated.
C11_FilterFrame == [][FilterStepFrame]_vars

\* the filter has kept two different findings of a list, the first of
\* severity info and the second of severity error
C11_Witness ==
  /\ filterStage = "once"
  /\ Len(report.results) = 2
  /\ filtered = report.results
  /\ filtered[1].severity = "info" /\ filtered[2].severity = "error"
  /\ filtered[1].ruleId # filtered[2].ruleId

(***************************************************************************)
(* Properties of the python path                                           *)
(***************************************************************************)
\* the analyzer failed: no process or a failing one, output that is not
\* JSON, or a response whose success is false
PyFailure ==
  \/ pyOutcome.kind \in {"execError", "notJson"}
  \/ /\ pyOutcome.kind = "json"
     /\ pyOutcome.value.t = "object"
     /\ "success" \in DOMAIN pyOutcome.value.fields
     /\ pyOutcome.value.fields.success.t = "bool"
     /\ ~pyOutcome.value.fields.success.v

\* a finding of severity error and category potential-issue
IsFailureFinding(f) == f.severity = "error" /\ f.category = "potential-issue"

FailureFindingConfigured(r) ==
  /\ r \in DOMAIN config.rules["python"]
  /\ config.rules["python"][r].enabled
  /\ ~("error" \in DOMAIN config.severity /\ ~config.severity["error"])

PySuccess ==
  /\ pyOutcome.kind = "json"
  /\ pyOutcome.value.t = "object"
  /\ DOMAIN pyOutcome.value.fields = {"success", "issues"}
  /\ pyOutcome.value.fields.success.t = "bool"
  /\ pyOutcome.value.fields.success.v
  /\ pyOutcome.value.fields.issues.t = "list"
  /\ \A i \in DOMAIN pyOutcome.value.fields.issues.v :
       pyOutcome.value.fields.issues.v[i] \in WellFormedIssues

PyIssues == pyOutcome.value.fields.issues.v

\* the category an issue type stands for
CategoryOfType ==
  [t \in {"potential_issue", "code_smell", "suggestion"} |->
     CASE t = "potential_issue" -> "potential-issue"
       [] t = "code_smell" -> "code-smell"
       [] OTHER -> "suggestion"]

\* C13: on a response success = true with n issues the report has n
\* findings, the i-th made from the i-th issue: its message, its rule as
\* ruleId, its severity, the category of its type, and the range from
\* column 0 to column 100 of its line.
C13_IssuesMappedOneToOne ==
  (report.returned /\ PySuccess) =>
    /\ Len(report.results) = Len(PyIssues)
    /\ \A i \in DOMAIN PyIssues :
         /\ report.results[i].message = <<PyIssues[i].fields.message>>
         /\ report.results[i].ruleId = PyIssues[i].fields.rule
         /\ report.results[i].severity = PyIssues[i].fields.severity
         /\ report.results[i].category = CategoryOfType[PyIssues[i].fields.type]
         /\ report.results[i].range =
              [start |-> [line |-> PyIssues[i].fields.line, character |-> 0],
               end |-> [line |-> PyIssues[i].fields.line, character |-> 100]]

\* a response with two issues, a warning on line 3 and an info on line 7,
\* and the report made from it
C13_Witness ==
  /\ report.returned
  /\ PySuccess
  /\ Len(PyIssues) = 2
  /\ PyIssues[1].fields.severity = "warning" /\ PyIssues[2].fields.line = 7
  /\ Len(report.results) = 2
  /\ report.results[1].severity = "warning"
  /\ report.results[2].range.end = [line |-> 7, character |-> 100]

\* the fields of an issue of the analyzer (PythonIssue)
IssueFields == {"type", "severity", "message", "line", "rule"}

\* the parsed value has the shape {success: bool, issues?: [issue], message?}
HasResponseShape(value) ==
  /\ value.t = "object"
  /\ "success" \in DOMAIN value.fields
  /\ value.fields.success.t = "bool"
  /\ "issues" \in DOMAIN value.fields =>
       /\ value.fields.issues.t = "list"
       /\ \A i \in DOMAIN value.fields.issues.v :
            /\ value.fields.issues.v[i].t = "object"
            /\ IssueFields \subseteq DOMAIN value.fields.issues.v[i].fields

\* the analyzer wrote something, and it is off the expected shape
PyDeviates ==
  \/ pyOutcome.kind = "notJson"
  \/ pyOutcome.kind = "json" /\ ~HasResponseShape(pyOutcome.value)

\* C14 as stated: for every analyzer output that deviates from the expected
\* shape the report carries the single synthetic error finding and no
\* finding built from the malformed data.
C14_DeviationFailsSoft ==
  (report.returned /\ PyDeviates) =>
    /\ Len(report.results) = 1
    /\ IsFailureFinding(report.results[1])
    /\ report.results[1].ruleId \in {"syntax_error", "analysis_error"}

RegistrationIndex(id) == CHOOSE i \in DOMAIN rules : rules[i].id = id

\* the findings of the report that carry rule id `id`, in report order
ReportFindingsOf(id) ==
  SelectSeqBy(report.results,
              [i \in DOMAIN report.results |-> report.results[i].ruleId = id], 1)

\* C16: in a report the findings of an earlier-registered rule all precede
\* those of a later-registered rule (no interleaving), and the findings of
\* one rule stand in the order the rule found them.
C16_FindingsInRuleOrder ==
  report.returned =>
    /\ \A i, j \in DOMAIN report.results :
         i < j => RegistrationIndex(report.results[i].ruleId) <=
                    RegistrationIndex(report.results[j].ruleId)
    /\ \A k \in DOMAIN enabledRules :
         enabledRules[k].id \notin errors =>
           ReportFindingsOf(enabledRules[k].id) =
             Analyze(enabledRules[k], doc.text, doc.fsPath).results

\* custom-a registered before the registry's rules, the scattered text:
\* one custom finding, then both unused variables, both async functions,
\* both long functions, though the text interleaves them
C16_Witness ==
  /\ report.returned
  /\ doc.text = ScatteredText
  /\ Len(report.results) = 7
  /\ report.results[1].ruleId = "custom-a"
  /\ report.results[2].ruleId = "unused-variable"
  /\ report.results[3].ruleId = "unused-variable"
  /\ report.results[2].range.start.line < report.results[3].range.start.line
  /\ report.results[4].ruleId = "async-without-await"
  /\ report.results[4].range.start.line < report.results[3].range.start.line
  /\ report.results[7].ruleId = "long-function"

(***************************************************************************)
(* Ids of the findings                                                     *)
(***************************************************************************)
\* C17 as stated, on the python path: the findings of a report have
\* pairwise distinct ids, two issues of one rule on one line included.
C17_IdsDistinct ==
  report.returned =>
    \A i, j \in DOMAIN report.results :
      i # j => report.results[i].id # report.results[j].id

(***************************************************************************)
(* Ranges of the findings                                                  *)
(***************************************************************************)
\* position p is not after position q, by line and then by column
NotAfter(p, q) == p.line < q.line \/ (p.line = q.line /\ p.character <= q.character)

\* C18: every finding of every report, from a tree-based rule, from an
\* issue of the analyzer or made up on failure, has range.start <= range.end
\* in (line, column) order.
C18_RangeStartNotAfterEnd ==
  report.returned =>
    \A i \in DOMAIN report.results :
      NotAfter(report.results[i].range.start, report.results[i].range.end)

\* the report of sample.js: the unused variable's range lies within one
\* line and starts past column 0, the long function's spans lines
C18_Witness ==
  /\ report.returned
  /\ doc.text = SampleText
  /\ \E i \in DOMAIN report.results :
       /\ report.results[i].ruleId = "unused-variable"
       /\ report.results[i].range.start.line = report.results[i].range.end.line
       /\ 0 < report.results[i].range.start.character
       /\ report.results[i].range.start.character < report.results[i].range.end.character
  /\ \E i \in DOMAIN report.results :
       /\ report.results[i].ruleId = "long-function"
       /\ report.results[i].range.start.line < report.results[i].range.end.line

(***************************************************************************)
(* Overlapping analyses                                                    *)
(***************************************************************************)
\* C19 as stated: when analyses of the document have overlapped and all of
\* them are complete, the stored report, the sidebar, the decorations and
\* the code-action results all come from the most recently started one.
C19_LatestStartedWins ==
  (ui.overlapped /\ tasks = <<>>) =>
    /\ ui.stored.run = triggers
    /\ ui.sidebar.run = triggers
    /\ ui.decorations.run = triggers
    /\ ui.codeActions.run = triggers

(***************************************************************************)
(* Configuration seen by a trigger                                         *)
(***************************************************************************)
\* C20 as stated: every trigger decides on the settings as they are when it
\* fires, the global toggle included: the document is analysed by a trigger
\* exactly when codeSurfer.enabled is on at that moment.
C20_TriggerSeesLatestSettings ==
  [][triggers' # triggers => ((pc' = "loop") <=> settings.enabled)]_vars

(***************************************************************************)
(* Configured severity                                                     *)
(***************************************************************************)
\* C21 as stated: every finding of a rule in a report has the severity of
\* the rule's resolved configuration entry for the file's language.
C21_ConfiguredSeverityApplied ==
  (report.returned /\ caller = "document") =>
    \A k \in DOMAIN report.results :
      LET r == report.results[k].ruleId
      IN (r \in DOMAIN DocRuleConfig /\ "severity" \in DOMAIN DocRuleConfig[r]) =>
           report.results[k].severity = DocRuleConfig[r].severity

(***************************************************************************)
(* Configuration reads of overlapping runs                                 *)
(***************************************************************************)
\* C22 as stated: the inline-hint toggle an analysis reads after its await
\* is the one of the snapshot taken at its own start, whatever later runs
\* refreshed meanwhile: a completing run gives its results to the
\* decorations exactly when its own snapshot has inline hints on.
C22_RunReadsOwnSnapshot ==
  [][\A i \in DOMAIN tasks :
       (tasks' = RemoveAt(tasks, i) /\ ui.open) =>
         ((ui'.decorations.run = tasks[i].run) <=> tasks[i].snapshot.showInlineHints)]_vars

(***************************************************************************)
(* Per-document stores                                                     *)
(***************************************************************************)
\* C23 as stated: after the document's close event, once every analysis in
\* flight at the close has completed, neither the stored reports nor the
\* decorations nor the code-action results hold an entry for the document.
C23_NothingKeptAfterClose ==
  (~ui.open /\ tasks = <<>>) =>
    /\ ui.stored = NoneShown
    /\ ui.decorations = NoneShown
    /\ ui.codeActions = NoneShown

\* C29 as stated: whenever a report of the open document is stored and no
\* analysis is under way, the decorations and the code-action results are
\* those of that report, whatever the inline-hint setting.
C29_QuickFixesOfLatestReport ==
  (ui.open /\ tasks = <<>> /\ ui.stored # NoneShown) =>
    /\ ui.decorations = ui.stored
    /\ ui.codeActions = ui.stored

(***************************************************************************)
(* Owner of an await                                                       *)
(***************************************************************************)
RECURSIVE NearestAsyncFunction(_, _)
\* the nearest async function around item j of the text, looking past
\* functions that are not async (0: none)
NearestAsyncFunction(text, j) ==
  LET p == text[j].parent
  IN IF p = 0 THEN 0
     ELSE IF text[p].k = "func" /\ text[p].async THEN p
     ELSE NearestAsyncFunction(text, p)

Awaits(text) == {j \in DOMAIN text : text[j].k = "await"}

RECURSIVE BindingOf(_, _, _)
\* the declaration `name` refers to in scope p (0: the top level, else a
\* function): the one of the nearest scope around that declares it, 0 if none
BindingOf(text, name, p) ==
  LET here == {i \in DeclarationsOf(text, name) : text[i].parent = p}
  IN IF here # {} THEN CHOOSE i \in here : TRUE
     ELSE IF p = 0 THEN 0
     ELSE BindingOf(text, name, text[p].parent)

\* the reads of the binding of declaration i
ReadsOfDeclaration(text, i) ==
  {j \in ReadReferences(text, text[i].name) : BindingOf(text, text[i].name, text[j].parent) = i}

\* no scope declares a name twice
NoRedeclaration(text) ==
  \A i, j \in DOMAIN text :
    (text[i].k = "var" /\ text[j].k = "var" /\ i # j /\ text[i].name = text[j].name)
      => text[i].parent # text[j].parent

VisitedLongFunctions ==
  {k \in 1..(walk.pos - 1) :
     /\ walk.nodes[walk.order[k]].type \in FunctionTypes
     /\ walk.nodes[walk.order[k]].loc.end.line
           - walk.nodes[walk.order[k]].loc.start.line + 1 > MAX_LINES}

\* C26: unused-variable and async-without-await emit nothing while the
\* traversal is under way and finalize exactly once when it has ended;
\* long-function has emitted, at any moment, one finding per long function
\* visited so far, and never finalizes.
C26_TwoPhaseProtocol ==
  walk.phase \in {"traverse", "done"} =>
    IF walk.rule.kind = "long"
    THEN /\ walk.exits = 0
         /\ Len(walk.out) = Cardinality(VisitedLongFunctions)
    ELSE /\ walk.phase = "traverse" => (walk.out = <<>> /\ walk.exits = 0)
         /\ (walk.phase = "done" /\ walk.nodes # <<>>) => walk.exits = 1

\* unused-variable on the scattered text: the traversal is over, the one
\* finalization has emitted the two findings
C26_Witness ==
  /\ walk.phase = "done"
  /\ walk.rule.kind = "unused"
  /\ walk.code = ScatteredText
  /\ walk.exits = 1
  /\ Len(walk.out) = 2

\* C27: whatever calls of analyze came before on the same rule instance and
\* on whatever files, the findings a call returns for a file are those of
\* an analysis of that file alone.
C27_NoStateAcrossCalls ==
  walk.phase = "done" =>
    walk.out = BaseRuleAnalyze(walk.rule, walk.code, walk.filePath)

\* unused-variable has analysed sample.js, where b is read, and then the
\* scattered text: the second call reports both a and b
C27_Witness ==
  /\ walk.phase = "done"
  /\ walk.rule.kind = "unused"
  /\ walk.earlier = SampleText
  /\ walk.code = ScatteredText
  /\ Len(walk.out) = 2
  /\ walk.out[1].message[2] = "b"
  /\ walk.out[2].message[2] = "a"

(***************************************************************************)
(* Rule ids of the findings                                                *)
(***************************************************************************)
\* the ids of the rules a run with the current options may run: registered,
\* enabled, and in the allow-list unless the list is empty
RunnableRuleIds ==
  {rules[i].id : i \in {j \in DOMAIN rules :
                           /\ rules[j].enabled
                           /\ options.enabledRules # {} => rules[j].id \in options.enabledRules}}

\* C28: every finding of a report of the primary path carries the id of a
\* rule that is registered, enabled and allowed by the run's allow-list,
\* and of a rule that ran to its end.
C28_RuleIdOfARuleThatRan ==
  report.returned =>
    \A k \in DOMAIN report.results :
      /\ report.results[k].ruleId \in RunnableRuleIds
      /\ report.results[k].ruleId \notin errors

\* the registry's three rules and a disabled custom rule are registered,
\* the allow-list names long-function, custom-a and an unknown id: the
\* report of the scattered text holds the two long-function findings only
C28_Witness ==
  /\ report.returned
  /\ doc.text = ScatteredText
  /\ options.enabledRules = {"long-function", "custom-a", "not-registered"}
  /\ \E i \in DOMAIN rules : rules[i].id = "custom-a" /\ ~rules[i].enabled
  /\ \E i \in DOMAIN rules : rules[i].id = "unused-variable"
  /\ Len(report.results) = 2
  /\ \A k \in DOMAIN report.results : report.results[k].ruleId = "long-function"

(***************************************************************************)
(* The sidebar view                                                        *)
(***************************************************************************)
\* C30 as stated: once the view is resolved it displays the last report
\* passed to updateReport, also when that call came before the view was
\* resolved.
C30_ResolvedViewShowsLastReport ==
  ui.viewResolved => ui.viewShown = ui.sidebar

====
